---- MODULE Spec2Model ----
(***************************************************************************)
(* rshuffle: an MPD shuffler.  The model covers the activity detector      *)
(* (is_active), the song selection pipeline (queue_next), the play-history *)
(* store (AppState), the filter engine (Filter) and the control loop       *)
(* (event_loop under main's retry loop).                                   *)
(***************************************************************************)
EXTENDS Integers, Sequences, FiniteSets, TLC

VARIABLES
    \* the build and the program's context (AppContext)
    overflow_checks,  \* build profile: TRUE when integer overflow panics, FALSE when it wraps
    ctx,              \* [num_buffer, state: Option<AppState>, filters, inverted_filters]
    \* the daemon and the file system
    library,          \* the daemon's song database, as ListAllIn lists it
    queue,            \* the daemon's queue: the url of each entry
    current,          \* the daemon's current song: None or Some(position in queue)
    file,             \* state.json: None (no file) or Some(its alreadyPlayed set)
    \* main and event_loop
    pc,               \* where the program is
    attempts,         \* main's attempt counter
    status,           \* event_loop's status: None before the first reply of a connection
    active,           \* event_loop's activity status
    todo,             \* iterations left of `for _ in 0..n - 1`
    call,             \* which call of queue_next is running: "first" or "rest"
    \* queue_next
    switch_to,        \* its argument
    songs,            \* the candidates left after filtering
    next,             \* the chosen song: None before the choice
    result,           \* its result: "Ok" or "Err"
    resets,           \* how many times this call has recursed after finding nothing left to play
    \* history variables
    issued,           \* the queue commands sent since the last status reply
    enqueued,         \* the urls that calls of queue_next that returned Ok have appended since the last reset
    event,            \* event_loop's event: None, or Some(the event events.next() has just given)
    late,             \* main's test `last_attempt_at.elapsed() > ATTEMPT_INTERVAL`: None, or
                      \* Some(its value at the failure main has just handled)
    \* harness of is_active and of the filter engine
    probe             \* is_active: two buffer sizes, one status, the two results;
                      \* Filter: one argument, one song, the parsed filter, the match

\* ------------------------------------------------------------------ bounds

\* Small look-ahead buffer sizes handed to is_active: 0..MaxProbeBuffer, next to
\* the top of the u32 range.
MaxProbeBuffer == 3
\* Queue lengths of the statuses handed to is_active: 0..MaxProbeLen.
MaxProbeLen == 3
\* Look-ahead buffer sizes of the whole program: 0..MaxBuffer.
MaxBuffer == 1
\* The daemon's max_playlist_length: an add to a queue of this length is refused.
MaxQueue == 3
\* Depth to which the recursion of queue_next is followed.
MaxResets == 2
\* Look-ahead buffer sizes of the control loop on its own: 0..MaxLoopBuffer, next
\* to the top of the u32 range.
MaxLoopBuffer == 3

\* ------------------------------------------------------------------ Option

\* Rust's Option<T>: None is the empty tuple, Some(x) the one-element tuple.
None == <<>>
Some(x) == <<x>>
is_some(o) == o # None
unwrap(o) == o[1]

\* ------------------------------------------------------------------ u32

\* A u32 (Cli::num_buffer, ActivityStatus::Active's count) is kept at its full
\* width as two 16-bit halves <<hi, lo>>: its value is hi * 2^16 + lo.
HalfRange == 65536

U32(n) == <<(n \div HalfRange) % HalfRange, n % HalfRange>>

U32_MAX == <<HalfRange - 1, HalfRange - 1>>

\* a + b on u32: the wrapped sum, and whether the true sum left the range.
u32_add(a, b) ==
    LET lo == a[2] + b[2]
        hi == a[1] + b[1] + (lo \div HalfRange)
    IN  [value |-> <<hi % HalfRange, lo % HalfRange>>, overflow |-> hi >= HalfRange]

\* a - b on u32: the wrapped difference, and whether the true one is negative.
u32_sub(a, b) ==
    LET lo == a[2] - b[2]
        borrow == IF lo < 0 THEN 1 ELSE 0
        hi == a[1] - b[1] - borrow
    IN  [value |-> <<hi % HalfRange, lo % HalfRange>>, overflow |-> hi < 0]

u32_lt(a, b) == a[1] < b[1] \/ (a[1] = b[1] /\ a[2] < b[2])

u32_le(a, b) == a = b \/ u32_lt(a, b)

\* `x as u32` of a usize: truncation to the low 32 bits.
as_u32(x) == U32(x)

\* ------------------------------------------------------------------ is_active

NotActive == [tag |-> "NotActive"]
Active(n, play_first) == [tag |-> "Active", n |-> n, play_first |-> play_first]
\* The thread panics ("attempt to add with overflow") instead of returning.
Panic == [tag |-> "Panic"]

\* `1 + ctx.num_buffer` in Active(1 + ctx.num_buffer, true): u32 addition, which
\* panics on overflow in a build with overflow checks and wraps in one without.
active_one_plus_buffer(context) ==
    LET n == u32_add(U32(1), context.num_buffer)
    IN  IF n.overflow /\ overflow_checks THEN Panic ELSE Active(n.value, TRUE)

\* is_active without its test of a buffer size of 0.
is_active_ignoring_zero_buffer(context, reply) ==
    IF reply.next_song = None /\ reply.current_song = None
    THEN active_one_plus_buffer(context)
    ELSE IF reply.current_song = None
         THEN active_one_plus_buffer(context)
         ELSE LET len == reply.playlist_length
                  current_position == unwrap(reply.current_song)
                  remaining == as_u32(len - current_position - 1)
              IN  IF remaining = U32(0)
                  THEN Active(context.num_buffer, FALSE)
                  ELSE IF u32_lt(remaining, context.num_buffer)
                  THEN Active(remaining, FALSE)
                  ELSE NotActive

\* reply (a Status) = [playlist_length: usize, current_song: Option<position>,
\*           next_song: Option<position>]
is_active(context, reply) ==
    IF reply.next_song = None /\ reply.current_song = None
    THEN active_one_plus_buffer(context)
    ELSE IF context.num_buffer # U32(0)
    THEN IF reply.current_song = None
         THEN active_one_plus_buffer(context)
         ELSE LET len == reply.playlist_length
                  current_position == unwrap(reply.current_song)
                  remaining == as_u32(len - current_position - 1)
              IN  IF remaining = U32(0)
                  THEN Active(context.num_buffer, FALSE)
                  ELSE IF u32_lt(remaining, context.num_buffer)
                  THEN Active(remaining, FALSE)
                  ELSE NotActive
    ELSE NotActive

\* ------------------------------------------------------------------ strings

\* A string is the tuple of its characters.
contains_char(s, c) == \E i \in 1..Len(s) : s[i] = c

starts_with(s, c) == Len(s) > 0 /\ s[1] = c

\* str::contains: needle occurs in hay as a contiguous substring.
str_contains(hay, needle) ==
    \E i \in 0..(Len(hay) - Len(needle)) : SubSeq(hay, i + 1, i + Len(needle)) = needle

\* char::to_lowercase on the letters the model's texts use.
lower_char(c) ==
    CASE c = "A" -> "a"
      [] c = "B" -> "b"
      [] c = "C" -> "c"
      [] OTHER -> c

to_lowercase(s) == [i \in 1..Len(s) |-> lower_char(s[i])]

\* s.splitn(2, ':'): the part before the first ':' and the rest after it, or s
\* alone when it holds no ':'.
splitn2(s) ==
    IF ~contains_char(s, ":")
    THEN <<s>>
    ELSE LET i == CHOOSE k \in 1..Len(s) :
                      s[k] = ":" /\ \A j \in 1..(k - 1) : s[j] # ":"
         IN  <<SubSeq(s, 1, i - 1), SubSeq(s, i + 1, Len(s))>>

\* ------------------------------------------------------------------ filter.rs

Ok(v) == [ok |-> TRUE, value |-> v]
Err(e) == [ok |-> FALSE, error |-> e]

FilterField_from_str(s) ==
    CASE s = <<"t", "i", "t", "l", "e">> -> Ok("Title")
      [] s = <<"a", "r", "t", "i", "s", "t">> -> Ok("Artist")
      [] s = <<"a", "l", "b", "u", "m">> -> Ok("Album")
      [] s = <<"a", "n", "y">> -> Ok("Any")
      [] OTHER -> Err("InvalidField")

Filter_from_str(s) ==
    IF ~contains_char(s, ":")
    THEN LET invert == starts_with(s, "!")
             rest == IF invert THEN Tail(s) ELSE s
         IN  Ok([field |-> "Any", value |-> rest, invert |-> invert])
    ELSE LET parts == splitn2(s)
         IN  IF Len(parts) < 1 THEN Err("InvalidField")
             ELSE IF Len(parts) < 2 THEN Err("InvalidValue")
             ELSE LET inverted == starts_with(parts[1], "!")
                      name == IF inverted THEN Tail(parts[1]) ELSE parts[1]
                      field == FilterField_from_str(name)
                  IN  IF ~field.ok THEN field
                      ELSE Ok([field |-> field.value, value |-> parts[2],
                               invert |-> inverted])

is_inverted(filter) == filter.invert

as_field(filter, field) == [filter EXCEPT !.field = field]

\* A song is [url, title: Option<string>, artists: sequence of strings,
\* album: Option<string>].
RECURSIVE matches(_, _)
matches(filter, song) ==
    IF filter.field = "Any"
    THEN \/ matches(as_field(filter, "Title"), song)
         \/ matches(as_field(filter, "Artist"), song)
         \/ matches(as_field(filter, "Album"), song)
    ELSE LET to_compare ==
                 CASE filter.field = "Title" -> song.title
                   [] filter.field = "Artist" ->
                          IF song.artists = <<>> THEN None ELSE Some(song.artists[1])
                   [] filter.field = "Album" -> song.album
         IN  is_some(to_compare)
                 /\ str_contains(to_lowercase(unwrap(to_compare)), filter.value)

\* main: every argument that parses becomes a filter, the others are reported and
\* skipped; the inverted ones are then split from the rest.
parse_filters(args) ==
    LET parsed == [i \in 1..Len(args) |-> Filter_from_str(args[i])]
        good == SelectSeq(parsed, LAMBDA r : r.ok)
    IN  [i \in 1..Len(good) |-> good[i].value]

partition_filters(all) ==
    [inverted_filters |-> SelectSeq(all, is_inverted),
     filters |-> SelectSeq(all, LAMBDA f : ~is_inverted(f))]

\* ------------------------------------------------------------------ state.rs

\* AppState is [persist, already_played]; the state file is None (no file) or
\* Some(the alreadyPlayed set of the document it holds).
AppState_load(persist, document) ==
    IF ~persist \/ document = None
    THEN [persist |-> persist, already_played |-> {}]
    ELSE [persist |-> persist, already_played |-> unwrap(document)]

\* The state document after a save that does not fail.
save(state, document) ==
    IF ~state.persist THEN document ELSE Some(state.already_played)

has_been_played(state, song) == song.url \in state.already_played

\* What the future of mark_as_played does when it is polled to its end.
mark_as_played(state, song, document) ==
    LET marked == [state EXCEPT !.already_played = @ \cup {song.url}]
    IN  [state |-> marked, file |-> save(marked, document)]

\* What the future of clear does when it is polled to its end.
clear(state, document) ==
    LET cleared == [state EXCEPT !.already_played = {}]
    IN  [state |-> cleared, file |-> save(cleared, document)]

\* An async fn called as a statement, `state.clear();` and
\* `state.mark_as_played(next);`: the call only builds the future, and a future
\* that is dropped without .await is never polled, so its body never runs and
\* the state and the file stay as they were before the call.
dropped_future(completed, before) == before

\* ------------------------------------------------------------------ queue_next

Songs(list) == [tag |-> "Songs", songs |-> list]
Failed(error) == [tag |-> "Err", error |-> error]
Reset == [tag |-> "Reset"]

\* select_songs without the test of the history: the songs already played stay
\* among the candidates.
select_songs_ignoring_history(context, all) ==
    IF all = <<>> THEN Failed("no songs in library")
    ELSE
    LET included ==
            IF context.filters # <<>>
            THEN SelectSeq(all, LAMBDA song :
                     \E i \in 1..Len(context.filters) : matches(context.filters[i], song))
            ELSE all
    IN  IF included = <<>> THEN Failed("no songs left after filtering")
        ELSE
        LET kept ==
                IF context.inverted_filters # <<>>
                THEN SelectSeq(included, LAMBDA song :
                         \A i \in 1..Len(context.inverted_filters) :
                             ~matches(context.inverted_filters[i], song))
                ELSE included
        IN  IF kept = <<>> THEN Failed("no songs left after inverted filtering")
            ELSE Songs(kept)

\* select_songs without the error for exclusion filters that leave nothing: it
\* goes on to the history with no song.
select_songs_unchecked_exclusion(context, all) ==
    IF all = <<>> THEN Failed("no songs in library")
    ELSE
    LET included ==
            IF context.filters # <<>>
            THEN SelectSeq(all, LAMBDA song :
                     \E i \in 1..Len(context.filters) : matches(context.filters[i], song))
            ELSE all
    IN  IF included = <<>> THEN Failed("no songs left after filtering")
        ELSE
        LET kept ==
                IF context.inverted_filters # <<>>
                THEN SelectSeq(included, LAMBDA song :
                         \A i \in 1..Len(context.inverted_filters) :
                             ~matches(context.inverted_filters[i], song))
                ELSE included
        IN  IF context.state = None THEN Songs(kept)
            ELSE
            LET unplayed == SelectSeq(kept, LAMBDA song :
                                ~has_been_played(unwrap(context.state), song))
            IN  IF unplayed = <<>> THEN Reset ELSE Songs(unplayed)

\* queue_next from the reply of ListAllIn (all) to the candidates it chooses
\* among: the error it returns, the reset of an exhausted history, or the songs
\* left.
select_songs(context, all) ==
    IF all = <<>> THEN Failed("no songs in library")
    ELSE
    LET included ==
            IF context.filters # <<>>
            THEN SelectSeq(all, LAMBDA song :
                     \E i \in 1..Len(context.filters) : matches(context.filters[i], song))
            ELSE all
    IN  IF included = <<>> THEN Failed("no songs left after filtering")
        ELSE
        LET kept ==
                IF context.inverted_filters # <<>>
                THEN SelectSeq(included, LAMBDA song :
                         \A i \in 1..Len(context.inverted_filters) :
                             ~matches(context.inverted_filters[i], song))
                ELSE included
        IN  IF kept = <<>> THEN Failed("no songs left after inverted filtering")
            ELSE IF context.state = None THEN Songs(kept)
            ELSE
            LET unplayed == SelectSeq(kept, LAMBDA song :
                                ~has_been_played(unwrap(context.state), song))
            IN  IF unplayed = <<>> THEN Reset ELSE Songs(unplayed)

\* The return of queue_next to its caller.
Return(r) ==
    /\ pc' = "returned"
    /\ result' = r
    /\ enqueued' = IF r = "Ok" THEN enqueued \cup {unwrap(next).url} ELSE enqueued

\* main.rs 317-370: list the library, filter it, drop the songs already played.
QueueNextList ==
    /\ pc = "queue_next"
    /\ \/ \* the ListAllIn command fails
          /\ Return("Err")
          /\ UNCHANGED <<ctx, file, songs, resets>>
       \/ LET selected == select_songs(ctx, library)
          IN  CASE selected.tag = "Err" ->
                       /\ Return("Err")
                       /\ UNCHANGED <<ctx, file, songs, resets>>
                [] selected.tag = "Reset" ->
                       \* warn!("no songs left to play, resetting"); state.clear();
                       \* return queue_next(client, ctx, switch_to).await
                       LET state == unwrap(ctx.state)
                           after == dropped_future(clear(state, file),
                                                   [state |-> state, file |-> file])
                       IN  /\ resets < MaxResets
                           /\ ctx' = [ctx EXCEPT !.state = Some(after.state)]
                           /\ file' = after.file
                           /\ resets' = resets + 1
                           /\ enqueued' = {}
                           /\ UNCHANGED <<pc, result, songs>>
                [] selected.tag = "Songs" ->
                       /\ songs' = selected.songs
                       /\ pc' = "add"
                       /\ UNCHANGED <<ctx, file, resets, result, enqueued>>
    /\ UNCHANGED <<overflow_checks, library, queue, current, attempts, status, active,
                   todo, call, switch_to, next, issued, probe, event, late>>

\* main.rs 372-378: choose one of the songs and send the Add command.
QueueNextAdd ==
    /\ pc = "add"
    /\ IF songs = <<>>
       THEN \* songs.choose(rng) is None: "no songs to choose from"
            /\ Return("Err")
            /\ UNCHANGED <<next, queue, issued>>
       ELSE \E i \in 1..Len(songs) :
            /\ next' = Some(songs[i])
            /\ \/ \* the daemon appends the song
                  /\ Len(queue) < MaxQueue
                  /\ queue' = Append(queue, songs[i].url)
                  /\ issued' = Append(issued, <<"add">>)
                  /\ pc' = IF switch_to # None THEN "play" ELSE "save"
                  /\ UNCHANGED <<result, enqueued>>
               \/ \* the Add command fails
                  /\ Return("Err")
                  /\ UNCHANGED <<queue, issued>>
    /\ UNCHANGED <<overflow_checks, ctx, library, current, file, attempts, status, active,
                   todo, call, switch_to, songs, resets, probe, event, late>>

\* main.rs 382-387: switch to the position given by the caller.
QueueNextPlay ==
    /\ pc = "play"
    /\ \/ \* the daemon starts playing the entry at that position
          /\ unwrap(switch_to) < Len(queue)
          /\ current' = switch_to
          /\ issued' = Append(issued, <<"play", unwrap(switch_to)>>)
          /\ pc' = "save"
          /\ UNCHANGED <<result, enqueued>>
       \/ \* the Play command fails
          /\ Return("Err")
          /\ UNCHANGED <<current, issued>>
    /\ UNCHANGED <<overflow_checks, ctx, library, queue, file, attempts, status, active,
                   todo, call, switch_to, songs, next, resets, probe, event, late>>

\* main.rs 389-396: record the song and save the state.
QueueNextSave ==
    /\ pc = "save"
    /\ IF ctx.state = None
       THEN /\ Return("Ok")
            /\ UNCHANGED <<ctx, file>>
       ELSE LET state == unwrap(ctx.state)
                \* state.mark_as_played(next);
                after == dropped_future(mark_as_played(state, unwrap(next), file),
                                        [state |-> state, file |-> file])
            IN  /\ ctx' = [ctx EXCEPT !.state = Some(after.state)]
                /\ \/ \* state.save().await succeeds
                      /\ file' = save(after.state, after.file)
                      /\ Return("Ok")
                   \/ \* state.save().await fails: the file cannot be written
                      /\ after.state.persist
                      /\ file' = after.file
                      /\ Return("Err")
    /\ UNCHANGED <<overflow_checks, library, queue, current, attempts, status, active,
                   todo, call, switch_to, songs, next, resets, issued, probe, event, late>>

\* ------------------------------------------------------------------ the daemon

\* The reply to the Status command.
daemon_status ==
    [playlist_length |-> Len(queue),
     current_song |-> current,
     next_song |-> IF current # None /\ unwrap(current) + 1 < Len(queue)
                   THEN Some(unwrap(current) + 1)
                   ELSE None]

\* The program reads or changes the daemon's queue and player at three places
\* only: the Status, the Add and the Play command.  What the player and the
\* other clients do in between reaches the program at the next of these, so
\* their steps are taken right before one.
DaemonRead == {"status", "add", "play"}

\* The current song ends: the daemon goes on to the next entry, or stops after
\* the last one.
PlayerAdvance ==
    /\ pc \in DaemonRead
    /\ current # None
    /\ current' = IF unwrap(current) + 1 < Len(queue)
                  THEN Some(unwrap(current) + 1)
                  ELSE None
    /\ UNCHANGED <<overflow_checks, ctx, library, queue, file, pc, attempts, status,
                   active, todo, call, switch_to, songs, next, result, resets, issued,
                   enqueued, probe, event, late>>

\* Another client appends an entry to the queue.
OtherClientAdd ==
    /\ pc \in DaemonRead
    /\ Len(queue) < MaxQueue
    /\ queue' = Append(queue, "other")
    /\ UNCHANGED <<overflow_checks, ctx, library, current, file, pc, attempts, status,
                   active, todo, call, switch_to, songs, next, result, resets, issued,
                   enqueued, probe, event, late>>

\* Another client clears the queue.
OtherClientClear ==
    /\ pc \in DaemonRead
    /\ queue # <<>>
    /\ queue' = <<>>
    /\ current' = None
    /\ UNCHANGED <<overflow_checks, ctx, library, file, pc, attempts, status,
                   active, todo, call, switch_to, songs, next, result, resets, issued,
                   enqueued, probe, event, late>>

\* ------------------------------------------------------------------ event_loop

\* What queue_next's variables hold outside a call.
NoCall ==
    /\ switch_to' = None
    /\ songs' = <<>>
    /\ next' = None
    /\ result' = "Ok"
    /\ resets' = 0

\* main.rs 174-177: connect to the daemon.
Connect ==
    /\ pc = "connect"
    /\ \/ pc' = "status"
       \/ pc' = "failed"
    /\ late' = None
    /\ UNCHANGED <<overflow_checks, ctx, library, queue, current, file, attempts, status,
                   active, todo, call, switch_to, songs, next, result, resets, issued,
                   enqueued, probe, event>>

\* main.rs 181-198: ask for the status, decide, and make the first call of
\* queue_next.
QueryStatus ==
    /\ pc = "status"
    /\ \/ \* the Status command fails
          /\ pc' = "failed"
          /\ UNCHANGED <<status, active, switch_to, issued>>
       \/ /\ status' = Some(daemon_status)
          /\ active' = is_active(ctx, daemon_status)
          /\ issued' = <<>>
          /\ CASE active'.tag = "Panic" ->
                      pc' = "panicked" /\ UNCHANGED switch_to
               [] active'.tag = "NotActive" ->
                      pc' = "wait" /\ UNCHANGED switch_to
               [] active'.tag = "Active" ->
                      /\ switch_to' = IF active'.play_first
                                      THEN Some(daemon_status.playlist_length)
                                      ELSE None
                      /\ pc' = "queue_next"
    /\ call' = "first"
    /\ todo' = U32(0)
    /\ event' = None
    /\ UNCHANGED <<overflow_checks, ctx, library, queue, current, file, attempts,
                   songs, next, result, resets, enqueued, probe, late>>

\* main.rs 198-203: queue_next has returned to event_loop: `?` passes its error
\* on, and the loop `for _ in 0..n - 1` makes the calls that are left.
QueueNextReturned ==
    /\ pc = "returned"
    /\ IF result = "Err"
       THEN /\ pc' = "failed"
            /\ UNCHANGED <<todo, call>>
       ELSE LET left == IF call = "first"
                        THEN u32_sub(active.n, U32(1))
                        ELSE u32_sub(todo, U32(1))
            IN  IF call = "first" /\ left.overflow /\ overflow_checks
                THEN \* `n - 1` panics: "attempt to subtract with overflow"
                     /\ pc' = "panicked"
                     /\ UNCHANGED <<todo, call>>
                ELSE /\ todo' = left.value
                     /\ call' = "rest"
                     /\ pc' = IF left.value = U32(0) THEN "wait" ELSE "queue_next"
    /\ NoCall
    /\ UNCHANGED <<overflow_checks, ctx, library, queue, current, file, attempts, status,
                   active, issued, enqueued, probe, event, late>>

Events == {"Queue", "Player", "Other", "ConnectionClosed", "End"}

\* WaitEvent without the test of the subsystem: every event that is not the end of
\* the connection starts the next iteration.
WaitEvent_breaking_on_any_event ==
    /\ pc = "wait"
    /\ \E received \in Events :
           /\ event' = Some(received)
           /\ pc' = CASE received \in {"Queue", "Player", "Other"} -> "status"
                      [] OTHER -> "failed"
    /\ UNCHANGED <<overflow_checks, ctx, library, queue, current, file, attempts, status,
                   active, todo, call, switch_to, songs, next, result, resets, issued,
                   enqueued, probe, late>>

\* main.rs 206-223: wait for the queue or the player to change.
WaitEvent ==
    /\ pc = "wait"
    /\ \E received \in Events :
           /\ event' = Some(received)
           /\ pc' = CASE received \in {"Queue", "Player"} -> "status"
                      [] received = "Other" -> "wait"
                      [] OTHER -> "failed"
    /\ UNCHANGED <<overflow_checks, ctx, library, queue, current, file, attempts, status,
                   active, todo, call, switch_to, songs, next, result, resets, issued,
                   enqueued, probe, late>>

\* ------------------------------------------------------------------ main

MaxAttempts == 3

\* MainRetry without the reset of the counter: a failure that comes late counts
\* like any other.
MainRetry_counting_late_failures ==
    /\ pc = "failed"
    /\ \E elapsed \in BOOLEAN :
           /\ late' = Some(elapsed)
           /\ attempts' = attempts + 1
           /\ pc' = IF attempts' < MaxAttempts THEN "connect" ELSE "exit"
    /\ event' = None
    /\ status' = None
    /\ active' = NotActive
    /\ todo' = U32(0)
    /\ call' = "first"
    /\ issued' = <<>>
    /\ NoCall
    /\ UNCHANGED <<overflow_checks, ctx, library, queue, current, file, enqueued, probe>>

\* main.rs 145-161: event_loop has returned an error.  elapsed: more than
\* ATTEMPT_INTERVAL has passed since last_attempt_at.
MainRetry ==
    /\ pc = "failed"
    /\ \E elapsed \in BOOLEAN :
           /\ late' = Some(elapsed)
           /\ attempts' = IF elapsed THEN 0 ELSE attempts + 1
           /\ pc' = IF attempts' < MaxAttempts THEN "connect" ELSE "exit"
    /\ event' = None
    /\ status' = None
    /\ active' = NotActive
    /\ todo' = U32(0)
    /\ call' = "first"
    /\ issued' = <<>>
    /\ NoCall
    /\ UNCHANGED <<overflow_checks, ctx, library, queue, current, file, enqueued, probe>>

\* ------------------------------------------------------------------ the library and the arguments

S1 == [url |-> "s1", title |-> Some(<<"a", "b">>), artists |-> <<>>, album |-> None]
S2 == [url |-> "s2", title |-> Some(<<"B", "a">>), artists |-> << <<"a">> >>,
       album |-> Some(<<"c">>)]
S3 == [url |-> "s3", title |-> None, artists |-> << <<"c">>, <<"a", "b">> >>,
       album |-> Some(<<"b">>)]

Library == <<S1, S2, S3>>

Urls == {Library[i].url : i \in 1..Len(Library)}

\* Every library the daemon may hold: the songs of Library with some left out.
Catalogs == {SelectSeq(Library, LAMBDA song : song.url \in keep) : keep \in SUBSET Urls}

\* The --filter arguments of a run.
FilterArgs ==
    { <<>>,
      << <<"a">> >>,
      << <<"!", "a", "l", "b", "u", "m", ":", "c">> >>,
      << <<"a">>, <<"!", "a", "l", "b", "u", "m", ":", "c">> >>,
      << <<"a">>, <<"a", "r", "t", "i", "s", "t", ":", "c">> >>,
      << <<"t", "i", "t", "l", "e", ":", "z">> >>,
      << <<"!", "b">> >>,
      << <<"b", "o", "g", "u", "s", ":", "a">> >> }

\* main.rs 105-143: the context main builds from the arguments and the state
\* file before it enters the retry loop.
InitContext(argsets, buffers, documents) ==
    /\ overflow_checks \in BOOLEAN
    /\ \E args \in argsets, num_buffer \in buffers, no_tracking \in BOOLEAN,
          persist \in BOOLEAN, document \in documents :
           LET parts == partition_filters(parse_filters(args))
           IN  /\ file = IF ~no_tracking /\ persist THEN document ELSE None
               /\ ctx = [num_buffer |-> num_buffer,
                         state |-> IF no_tracking THEN None
                                   ELSE Some(AppState_load(persist, file)),
                         filters |-> parts.filters,
                         inverted_filters |-> parts.inverted_filters]

\* No call of queue_next has been made, no event received, no failure handled.
InitNoCall ==
    /\ event = None
    /\ late = None
    /\ switch_to = None
    /\ songs = <<>>
    /\ next = None
    /\ result = "Ok"
    /\ resets = 0

\* ------------------------------------------------------------------ the program

Init ==
    /\ InitContext({<<>>}, {U32(k) : k \in 0..MaxBuffer},
                   {None, Some({"s1"}), Some({"s1", "s2"})})
    /\ library \in {<<>>, <<S1, S2>>}
    /\ queue = <<>>
    /\ current = None
    /\ pc = "connect"
    /\ attempts = 0
    /\ status = None
    /\ active = NotActive
    /\ todo = U32(0)
    /\ call = "first"
    /\ InitNoCall
    /\ issued = <<>>
    /\ enqueued = {}
    /\ probe = [tag |-> "NoProbe"]

Next ==
    \/ Connect
    \/ QueryStatus
    \/ QueueNextList
    \/ QueueNextAdd
    \/ QueueNextPlay
    \/ QueueNextSave
    \/ QueueNextReturned
    \/ WaitEvent
    \/ MainRetry
    \/ PlayerAdvance
    \/ OtherClientAdd
    \/ OtherClientClear

vars == <<overflow_checks, ctx, library, queue, current, file, pc, attempts, status,
          active, todo, call, switch_to, songs, next, result, resets, issued, enqueued,
          probe, event, late>>

Spec == Init /\ [][Next]_vars

\* ------------------------------------------------------------------ the program, scheduled

\* The steps of the program itself.  It is one task on the tokio runtime, which
\* polls it whenever what it awaits is ready: a command to the daemon gets its
\* reply, so none of these steps is put off for ever.  The wait for an event is
\* not among them: the daemon may have nothing to report.
ProgramStep ==
    \/ Connect
    \/ QueryStatus
    \/ QueueNextList
    \/ QueueNextAdd
    \/ QueueNextPlay
    \/ QueueNextSave
    \/ QueueNextReturned
    \/ MainRetry

\* The program without look-ahead and without a state file.
InitRetry ==
    /\ InitContext({<<>>}, {U32(0)}, {None})
    /\ library \in {<<>>, <<S1, S2>>}
    /\ queue = <<>>
    /\ current = None
    /\ pc = "connect"
    /\ attempts = 0
    /\ status = None
    /\ active = NotActive
    /\ todo = U32(0)
    /\ call = "first"
    /\ InitNoCall
    /\ issued = <<>>
    /\ enqueued = {}
    /\ probe = [tag |-> "NoProbe"]

SpecRetry == InitRetry /\ [][Next]_vars /\ WF_vars(ProgramStep)

\* ------------------------------------------------------------------ the control loop with no other client

\* The queues the program may find when it starts: entries that were there
\* before, the player stopped or on one of them.
InitLoop ==
    /\ overflow_checks \in BOOLEAN
    /\ \E num_buffer \in {U32(k) : k \in 0..MaxLoopBuffer} \cup {U32_MAX} :
           ctx = [num_buffer |-> num_buffer, state |-> None, filters |-> <<>>,
                  inverted_filters |-> <<>>]
    /\ file = None
    /\ library = <<S1, S2>>
    /\ queue \in {[i \in 1..len |-> "old"] : len \in 0..(MaxQueue - 1)}
    /\ current \in {None} \cup {Some(p) : p \in 0..(Len(queue) - 1)}
    /\ pc = "connect"
    /\ attempts = 0
    /\ status = None
    /\ active = NotActive
    /\ todo = U32(0)
    /\ call = "first"
    /\ InitNoCall
    /\ issued = <<>>
    /\ enqueued = {}
    /\ probe = [tag |-> "NoProbe"]

\* The program and the daemon's player; no other client touches the queue.
NextLoop ==
    \/ ProgramStep
    \/ WaitEvent
    \/ PlayerAdvance

SpecLoop == InitLoop /\ [][NextLoop]_vars

\* ------------------------------------------------------------------ one call of queue_next

\* A call of queue_next on any context, library and state file, with and without
\* a position to switch to.
InitSelect ==
    /\ InitContext(FilterArgs, {U32(0)}, {None} \cup {Some(h) : h \in SUBSET Urls})
    /\ library \in Catalogs
    /\ queue \in {<<>>, <<"other">>}
    /\ current = None
    /\ pc = "queue_next"
    /\ attempts = 0
    /\ status = Some(daemon_status)
    /\ active = Active(U32(1), TRUE)
    /\ todo = U32(0)
    /\ call = "first"
    /\ switch_to \in {None, Some(Len(queue))}
    /\ event = None
    /\ late = None
    /\ songs = <<>>
    /\ next = None
    /\ result = "Ok"
    /\ resets = 0
    /\ issued = <<>>
    /\ enqueued = {}
    /\ probe = [tag |-> "NoProbe"]

NextSelect == QueueNextList \/ QueueNextAdd \/ QueueNextPlay \/ QueueNextSave

SpecSelect == InitSelect /\ [][NextSelect]_vars

\* ------------------------------------------------------------------ is_active on its own

\* The statuses the daemon's reply type allows for a queue of length len: the
\* current and the next song are each absent or a position of the queue, the
\* current one before the next.
StatusesOfLength(len) ==
    [playlist_length : {len},
     current_song : {None} \cup {Some(p) : p \in 0..(len - 1)},
     next_song : {None} \cup {Some(p) : p \in 0..(len - 1)}]

ProbeStatuses == UNION {StatusesOfLength(len) : len \in 0..MaxProbeLen}

\* Buffer sizes at both ends of the u32 range.
ProbeBuffers ==
    {U32(k) : k \in 0..MaxProbeBuffer}
        \cup {u32_sub(U32_MAX, U32(k)).value : k \in 0..1}

Pending == [tag |-> "Pending"]

InitActive ==
    /\ overflow_checks \in BOOLEAN
    /\ probe \in [tag : {"Probe"},
                  low : ProbeBuffers, high : ProbeBuffers,
                  status : ProbeStatuses,
                  out_low : {Pending}, out_high : {Pending}]
    /\ u32_le(probe.low, probe.high)
    /\ ctx = [num_buffer |-> probe.low, state |-> None, filters |-> <<>>,
              inverted_filters |-> <<>>]
    /\ library = <<>>
    /\ queue = <<>>
    /\ current = None
    /\ file = None
    /\ pc = "probe"
    /\ attempts = 0
    /\ status = Some(probe.status)
    /\ active = NotActive
    /\ todo = U32(0)
    /\ call = "first"
    /\ InitNoCall
    /\ issued = <<>>
    /\ enqueued = {}

UnchangedProgram ==
    UNCHANGED <<overflow_checks, ctx, library, queue, current, file, pc, attempts, status,
                active, todo, call, switch_to, songs, next, result, resets, issued,
                enqueued, event, late>>

ProbeLow ==
    /\ probe.tag = "Probe"
    /\ probe.out_low = Pending
    /\ probe' = [probe EXCEPT
                    !.out_low = is_active([num_buffer |-> probe.low], probe.status)]
    /\ UnchangedProgram

ProbeHigh ==
    /\ probe.tag = "Probe"
    /\ probe.out_high = Pending
    /\ probe' = [probe EXCEPT
                    !.out_high = is_active([num_buffer |-> probe.high], probe.status)]
    /\ UnchangedProgram

NextActive == ProbeLow \/ ProbeHigh

SpecActive == InitActive /\ [][NextActive]_vars

\* ------------------------------------------------------------------ the filter engine on its own

\* The --filter arguments handed to Filter::from_str: an optional '!', an
\* optional field name with its ':', and a value.
FilterPrefixes == {<<>>, <<"!">>}

FilterFieldParts ==
    { <<>>,
      <<"t", "i", "t", "l", "e", ":">>,
      <<"a", "r", "t", "i", "s", "t", ":">>,
      <<"a", "l", "b", "u", "m", ":">>,
      <<"a", "n", "y", ":">>,
      <<"b", "o", "g", "u", "s", ":">>,
      <<":">> }

FilterValues ==
    { <<>>, <<"a">>, <<"A">>, <<"b">>, <<"a", "b">>, <<"a", "B">>, <<"c">>, <<":">> }

FilterTexts ==
    {prefix \o part \o value :
        prefix \in FilterPrefixes, part \in FilterFieldParts, value \in FilterValues}

\* A song whose tags are in upper case.
S4 == [url |-> "s4", title |-> Some(<<"A", "B">>), artists |-> << <<"C">> >>,
       album |-> Some(<<"A">>)]

ProbeSongs == {S1, S2, S3, S4}

InitFilter ==
    /\ overflow_checks \in BOOLEAN
    /\ probe \in [tag : {"Filter"}, text : FilterTexts, song : ProbeSongs,
                  parsed : {Pending}, matched : {None}]
    /\ ctx = [num_buffer |-> U32(0), state |-> None, filters |-> <<>>,
              inverted_filters |-> <<>>]
    /\ library = <<>>
    /\ queue = <<>>
    /\ current = None
    /\ file = None
    /\ pc = "probe"
    /\ attempts = 0
    /\ status = None
    /\ active = NotActive
    /\ todo = U32(0)
    /\ call = "first"
    /\ InitNoCall
    /\ issued = <<>>
    /\ enqueued = {}

\* main.rs 119: filter.parse()
ParseFilter ==
    /\ probe.tag = "Filter"
    /\ probe.parsed = Pending
    /\ probe' = [probe EXCEPT !.parsed = Filter_from_str(probe.text)]
    /\ UnchangedProgram

\* main.rs 327 and 341: filter.matches(song)
MatchFilter ==
    /\ probe.tag = "Filter"
    /\ probe.parsed # Pending
    /\ probe.parsed.ok
    /\ probe.matched = None
    /\ probe' = [probe EXCEPT !.matched = Some(matches(probe.parsed.value, probe.song))]
    /\ UnchangedProgram

NextFilter == ParseFilter \/ MatchFilter

SpecFilter == InitFilter /\ [][NextFilter]_vars

\* ------------------------------------------------------------------ claims

\* The songs of the library that the filters let through: a song that matches
\* at least one inclusion filter when there is one, and no exclusion filter.
EligibleSongs ==
    {song \in {library[i] : i \in 1..Len(library)} :
        /\ \/ ctx.filters = <<>>
           \/ \E i \in 1..Len(ctx.filters) : matches(ctx.filters[i], song)
        /\ \A i \in 1..Len(ctx.inverted_filters) : ~matches(ctx.inverted_filters[i], song)}

\* The history: empty when tracking is off.
History == IF ctx.state = None THEN {} ELSE unwrap(ctx.state).already_played

\* The eligible songs whose url is not in the history.
EligibleUnplayed == {song \in EligibleSongs : song.url \notin History}

\* C1: with tracking on, a call of queue_next that returns Ok has not appended a
\* url that an earlier such call appended since the last reset, unless every
\* eligible song has been appended since then.
C1_NoRepeatBeforeAllEnqueued ==
    [][(ctx.state # None /\ pc = "save" /\ pc' = "returned" /\ result' = "Ok")
          => \/ unwrap(next).url \notin enqueued
             \/ {song.url : song \in EligibleSongs} \subseteq enqueued]_vars

\* C2: with a buffer size of 0, is_active answers NotActive to every status that
\* reports a current or a next song; an iteration of the loop on such a status
\* sends neither Add nor Play, and one that sent a command had a status with
\* neither song.
C2_ZeroBufferLeavesQueueAlone ==
    /\ pc = "connect" =>
           \A reply \in UNION {[playlist_length : {len},
                                current_song : {None} \cup {Some(p) : p \in 0..(len - 1)},
                                next_song : {None} \cup {Some(p) : p \in 0..(len - 1)}]
                               : len \in 0..MaxQueue} :
               (reply.current_song # None \/ reply.next_song # None)
                   => is_active([num_buffer |-> U32(0)], reply) = NotActive
    /\ (ctx.num_buffer = U32(0) /\ status # None) =>
           /\ (unwrap(status).current_song # None \/ unwrap(status).next_song # None)
                  => (active = NotActive /\ issued = <<>>
                         /\ pc \notin {"queue_next", "add", "play", "save", "returned"})
           /\ issued # <<>>
                  => (unwrap(status).current_song = None /\ unwrap(status).next_song = None)

\* C2's case: the buffer size is 0, the status reports a current song, and the
\* loop waits for the next event without having sent a command.
C2_Witness ==
    /\ ctx.num_buffer = U32(0)
    /\ status # None
    /\ unwrap(status).current_song # None
    /\ active = NotActive
    /\ pc = "wait"

\* The results is_active has returned in the harness.
ProbeResults == {probe.out_low, probe.out_high} \ {Pending}

\* C3: is_active never returns Active(0, _).
C3_NeverActiveZero ==
    \A out \in ProbeResults : out.tag = "Active" => out.n # U32(0)

\* n is b + 1 as integers (both in the u32 range).
IsSuccessor(b, n) ==
    \/ b[2] < HalfRange - 1 /\ n = <<b[1], b[2] + 1>>
    \/ b[2] = HalfRange - 1 /\ b[1] < HalfRange - 1 /\ n = <<b[1] + 1, 0>>

\* C4: on a status with neither a current nor a next song, is_active returns
\* Active(1 + bufferSize, true).
C4_EmptyQueueIsOnePlusBuffer ==
    (probe.out_low # Pending
        /\ probe.status.current_song = None /\ probe.status.next_song = None)
    => /\ probe.out_low.tag = "Active"
       /\ probe.out_low.play_first
       /\ IsSuccessor(probe.low, probe.out_low.n)

\* C5: for a buffer size above 0 and a current song at position p of a queue of
\* length L, with remaining = L - p - 1: Active(bufferSize, false) when remaining
\* is 0, Active(bufferSize - remaining, false) when 0 < remaining < bufferSize,
\* NotActive when remaining >= bufferSize.
C5_TopUpToBufferSize ==
    (probe.out_low # Pending /\ probe.low # U32(0) /\ probe.status.current_song # None)
    => LET remaining == U32(probe.status.playlist_length
                                - unwrap(probe.status.current_song) - 1)
       IN  probe.out_low =
               IF remaining = U32(0) THEN Active(probe.low, FALSE)
               ELSE IF u32_lt(remaining, probe.low)
               THEN Active(u32_sub(probe.low, remaining).value, FALSE)
               ELSE NotActive

\* C6: once a call of queue_next has found every eligible song played and has
\* reset, the history holds nothing but the url of the song the call has chosen
\* since, and holds exactly that url when the call returns Ok.
C6_ResetEmptiesHistory ==
    (ctx.state # None /\ resets > 0)
    => /\ History \subseteq (IF next = None THEN {} ELSE {unwrap(next).url})
       /\ (pc = "returned" /\ result = "Ok") => History = {unwrap(next).url}

\* C7: when an eligible song is unplayed, the songs queue_next chooses among are
\* exactly the eligible unplayed songs, each of them can be the one it appends,
\* and the one it has appended is one of them.
C7_ChoiceIsEligibleUnplayed ==
    EligibleUnplayed # {} =>
        /\ pc = "add" =>
               /\ {songs[i] : i \in 1..Len(songs)} = EligibleUnplayed
               /\ \A song \in EligibleUnplayed :
                      ENABLED (QueueNextAdd /\ next' = Some(song) /\ pc' # "returned")
        /\ pc \in {"play", "save"} => unwrap(next) \in EligibleUnplayed

\* C7's case: inclusion and exclusion filters and a history that is not empty,
\* and a song has been appended.
C7_Witness ==
    /\ pc = "save"
    /\ ctx.filters # <<>>
    /\ ctx.inverted_filters # <<>>
    /\ History # {}
    /\ Len(library) > Cardinality(EligibleUnplayed)
    /\ unwrap(next) \in EligibleUnplayed

\* No song of the library is eligible: the library is empty, the inclusion
\* filters match none of its songs, or the exclusion filters remove the rest.
NothingEligible == EligibleSongs = {}

\* C8: when no song is eligible, the call of queue_next returns an error at its
\* first step, with the history, the state file, the queue and the player as
\* they were and no command sent.
C8_NothingEligibleIsAnError ==
    [][(NothingEligible /\ pc = "queue_next")
          => /\ pc' = "returned" /\ result' = "Err"
             /\ ctx' = ctx /\ file' = file /\ resets' = resets
             /\ queue' = queue /\ current' = current /\ issued' = issued]_vars

\* C8's case: the exclusion filters remove every song of a library that is not
\* empty, the history holds urls, and the call has returned its error.
C8_Witness ==
    /\ NothingEligible
    /\ library # <<>>
    /\ ctx.inverted_filters # <<>>
    /\ History # {}
    /\ pc = "returned"
    /\ result = "Err"

\* C9: with persistence on, when a call of queue_next has returned Ok, a load of
\* the state file gives the history in memory, and that history holds the url
\* the call appended.
C9_FileHoldsHistoryAfterMark ==
    (ctx.state # None /\ unwrap(ctx.state).persist /\ pc = "returned" /\ result = "Ok")
    => LET resumed == AppState_load(TRUE, file).already_played
       IN  /\ resumed = History
           /\ unwrap(next).url \in resumed

\* C10: for one status and buffer sizes low <= high, when is_active returns
\* Active(c1, _) for low and Active(c2, _) for high, c1 <= c2.
C10_CountGrowsWithBuffer ==
    (probe.out_low.tag = "Active" /\ probe.out_high.tag = "Active")
    => u32_le(probe.out_low.n, probe.out_high.n)

\* The song with its title, its artists and its album in lower case.
LowerSong(song) ==
    [url |-> song.url,
     title |-> IF song.title = None THEN None ELSE Some(to_lowercase(unwrap(song.title))),
     artists |-> [i \in 1..Len(song.artists) |-> to_lowercase(song.artists[i])],
     album |-> IF song.album = None THEN None ELSE Some(to_lowercase(unwrap(song.album)))]

\* C11: a filter that parsing has produced holds its value in lower case, and
\* its match of a song is the match of the filter with the value in lower case
\* and of the song with its title, artists and album in lower case.
C11_ValueStoredLowercase ==
    (probe.parsed # Pending /\ probe.parsed.ok)
    => /\ probe.parsed.value.value = to_lowercase(probe.parsed.value.value)
       /\ probe.matched # None
              => unwrap(probe.matched)
                     = matches([probe.parsed.value EXCEPT !.value = to_lowercase(@)],
                               LowerSong(probe.song))

\* The names FilterField::from_str accepts.
FieldNames ==
    { <<"t", "i", "t", "l", "e">>, <<"a", "r", "t", "i", "s", "t">>,
      <<"a", "l", "b", "u", "m">>, <<"a", "n", "y">> }

\* C12: parsing a text that holds a ':' fails with InvalidField when the part
\* before the first ':', less one leading '!', is not a field name, fails with
\* InvalidValue when the name is one and nothing follows the first ':', and
\* never gives a filter whose value is empty.
C12_EmptyValueIsInvalid ==
    (probe.parsed # Pending /\ \E k \in 1..Len(probe.text) : probe.text[k] = ":")
    => LET colon == CHOOSE k \in 1..Len(probe.text) :
                       probe.text[k] = ":" /\ \A j \in 1..(k - 1) : probe.text[j] # ":"
           before == SubSeq(probe.text, 1, colon - 1)
           name == IF before # <<>> /\ before[1] = "!" THEN Tail(before) ELSE before
           nothing_follows == colon = Len(probe.text)
       IN  /\ name \notin FieldNames => probe.parsed = Err("InvalidField")
           /\ (name \in FieldNames /\ nothing_follows) => probe.parsed = Err("InvalidValue")
           /\ probe.parsed.ok => probe.parsed.value.value # <<>>

\* C13: main handles a failure of event_loop by resetting the counter when the
\* failure comes late and by counting it otherwise, and exits exactly at the
\* third failure in a row that does not come late; the program exits from
\* nowhere else, and unless a run of event_loop gets to wait for events (or
\* panics) or a failure comes late, the program ends up exited, with 3 failures
\* counted.
C13_ExitAfterThreeQuickFailures ==
    /\ [][pc = "failed"
            => /\ late' # None
               /\ unwrap(late') => (attempts' = 0 /\ pc' = "connect")
               /\ ~unwrap(late') => attempts' = attempts + 1
               /\ pc' = "exit" <=> (~unwrap(late') /\ attempts = 2)
               /\ pc' \in {"connect", "exit"}]_vars
    /\ [][pc' = "exit" => pc = "failed"]_vars
    /\ [](pc = "exit" => attempts = 3)
    /\ <>(pc \in {"exit", "wait", "panicked"} \/ late = Some(TRUE))

\* C13's case: the third failure in a row has come early and the program has
\* exited.
C13_Witness ==
    /\ pc = "exit"
    /\ late = Some(FALSE)
    /\ attempts = 3

\* C14: within one call of queue_next the reset of an exhausted history happens
\* at most once: the selection that follows a reset finds an eligible song
\* that is unplayed, and the call does not reset again.
C14_ResetAtMostOnce ==
    /\ resets <= 1
    /\ (resets > 0 /\ pc = "queue_next") => EligibleUnplayed # {}

\* The Add and the Play commands sent since the last status reply.
IssuedAdds == SelectSeq(issued, LAMBDA command : command[1] = "add")
IssuedPlays == SelectSeq(issued, LAMBDA command : command[1] = "play")

\* C15: an iteration that has decided Active(n, play_first) never sends more
\* than n Add commands; when it has made all its calls with none failing it has
\* sent exactly n of them, with one Play command right after the first Add when
\* play_first is true and no Play command when it is false.
C15_AppendsAndPlay ==
    active.tag = "Active" =>
        /\ u32_le(U32(Len(IssuedAdds)), active.n)
        /\ ~active.play_first => IssuedPlays = <<>>
        /\ pc = "wait" =>
               /\ U32(Len(IssuedAdds)) = active.n
               /\ active.play_first =>
                      /\ Len(IssuedPlays) = 1
                      /\ issued[1][1] = "add"
                      /\ issued[2][1] = "play"

\* C16: on a status with a next song and no current song, is_active returns
\* Active(1 + bufferSize, true), whatever the buffer size.
C16_NextWithoutCurrent ==
    (probe.out_low # Pending
        /\ probe.status.current_song = None /\ probe.status.next_song # None)
    => /\ probe.out_low.tag = "Active"
       /\ probe.out_low.play_first
       /\ IsSuccessor(probe.low, probe.out_low.n)

\* C17: a step of the loop while it waits consumes one event and touches nothing
\* else: it goes to the next status query exactly when the event is a change of
\* the queue or of the player, keeps waiting on any other change, and makes
\* event_loop fail when the connection is closed or the stream ends; and no
\* status is taken anywhere but at the status query.
C17_OnlyQueueAndPlayerWake ==
    /\ [][pc = "wait"
            => /\ event' # None
               /\ pc' = "status" <=> unwrap(event') \in {"Queue", "Player"}
               /\ pc' = "wait" <=> unwrap(event') \notin {"Queue", "Player", "ConnectionClosed", "End"}
               /\ pc' = "failed" <=> unwrap(event') \in {"ConnectionClosed", "End"}
               /\ status' = status /\ active' = active /\ issued' = issued
               /\ queue' = queue /\ current' = current /\ ctx' = ctx /\ file' = file]_vars
    /\ [][(status' # status /\ status' # None) => pc = "status"]_vars
    /\ [][(pc' = "status" /\ pc # "status") => pc \in {"connect", "wait"}]_vars

\* C17's case: the loop has consumed an event of another subsystem and still
\* waits.
C17_Witness ==
    /\ pc = "wait"
    /\ event = Some("Other")
    /\ status # None

\* C18: when queue_next has sent Play, the entry at the position it gave is the
\* song this call appended, and it is the current song.
C18_PlaysWhatItAppended ==
    (pc = "save" /\ switch_to # None)
    => /\ unwrap(switch_to) < Len(queue)
       /\ queue[unwrap(switch_to) + 1] = unwrap(next).url
       /\ current = switch_to

\* C19: with tracking on, when a call of queue_next whose Add command succeeded
\* has returned, with Ok or with an error, the url of the song it appended is in
\* the history.
C19_AppendedIsRecorded ==
    (ctx.state # None /\ pc = "returned" /\ IssuedAdds # <<>>)
    => unwrap(next).url \in History

\* C20: with a buffer size above 0 and no other client, when an iteration that
\* decided Active has made all its calls with none failing and the current song
\* is the one the iteration saw or started, the number of entries after the
\* current song is the buffer size, and is_active on the daemon's status is
\* NotActive.
C20_FillsToBufferSize ==
    (/\ pc = "wait"
     /\ active.tag = "Active"
     /\ ctx.num_buffer # U32(0)
     /\ current # None
     /\ current = IF active.play_first
                  THEN Some(unwrap(status).playlist_length)
                  ELSE unwrap(status).current_song)
    => /\ U32(Len(queue) - unwrap(current) - 1) = ctx.num_buffer
       /\ is_active(ctx, daemon_status) = NotActive

====
